---- MODULE Spec2Model ----
(***************************************************************************)
(* rpm-limiter (src/lib/index.ts): a rate-per-minute limiter made of       *)
(*   - initTimeUntilNextMinute: a generator holding {start, count} that    *)
(*     yields the milliseconds to wait before the next call,               *)
(*   - initWaitFor: waitFor(ms) / clearWaitFor() around setTimeout and a   *)
(*     single recorded timeoutId,                                          *)
(*   - initRatePerMinuteLimiter: rateLimiter() = waitFor(generator.next()) *)
(*     and clear() = clearWaitFor().                                       *)
(* Time is the integer millisecond clock Date.now().  A timer may fire at  *)
(* any instant at or after the instant it is due.                          *)
(***************************************************************************)
EXTENDS Integers, Sequences, FiniteSets

\* ---------------------------------------------------------------- bounds
MaxRpm == 2        \* limits 0..MaxRpm
MaxMinuteMs == 2   \* windows of 1..MaxMinuteMs milliseconds
MaxTime == 4       \* the clock stops here
MaxCalls == 3      \* waits made in one run
MaxWaits == 2      \* waits made in one run on a bare executor
MaxWaitMs == 2     \* the longest waitFor(ms) made on a bare executor
MaxRoundMs == 10   \* roundMiliseconds(ms, _): ms in -MaxRoundMs..MaxRoundMs
MaxNearestMs == 3  \* roundMiliseconds(_, nearestMs): 0 < |nearestMs| <= MaxNearestMs

VARIABLES
    rpm,        \* initRatePerMinuteLimiter(rpm, minuteMs): the limit
    minuteMs,   \* the window length
    now,        \* Date.now()
    gen,        \* the generator bound to the rateLimiter reference in use
    genOnce,    \* a generator created once, at construction, and never again
    nth,        \* history: invocations of gen in its current window
    waits,      \* every waitFor made: its timer and its promise
    timeoutId,  \* the executor's recorded handle: 0 is null, else an index of waits
    lastOp,     \* history: the operation that produced this state
    round       \* a roundMiliseconds(ms, nearestMs) computation and its results

vars == <<rpm, minuteMs, now, gen, genOnce, nth, waits, timeoutId, lastOp, round>>

\* ------------------------------------------------- initTimeUntilNextMinute
\* A generator that was created but never resumed: its body has not run.
NewGenerator == [started |-> FALSE, start |-> 0, count |-> 1]

\* Mutant of Started: start is taken when the tracker is created (time 0).
StartedAtCreation(g, t) ==
    IF g.started THEN g ELSE [started |-> TRUE, start |-> 0, count |-> 1]

\* `let start = Date.now(); let count = 1` run on the first next().
Started(g, t) ==
    IF g.started THEN g ELSE [started |-> TRUE, start |-> t, count |-> 1]

\* Mutant of Remainder: the boundary instant is counted in, one millisecond more.
RemainderInclusive(st, t) == ((st + minuteMs) - t) + 1

\* `const end = start + minuteMs; const remainder = end - Date.now()`
Remainder(st, t) == (st + minuteMs) - t

\* Mutant of WindowElapsed: the window resets a millisecond late.
WindowElapsedLate(remainder) == remainder < -1

\* Mutant of WindowElapsed: the window also resets at the boundary instant.
WindowElapsedAtBoundary(remainder) == remainder <= 0

\* `if (remainder < 0)`
WindowElapsed(remainder) == remainder < 0

\* `if (count > rpm)`
LimitReached(c) == c > rpm

\* Mutant of LimitedValue: a full window is returned whatever time is left.
LimitedValueFullWindow(remainder) == minuteMs

\* The value returned when the limit is reached: `return remainder`
LimitedValue(remainder) == remainder

\* One generator.next() at time t: the new generator state and the value.
TimeUntilNextMinute(g, t) ==
    LET s         == Started(g, t)
        remainder == Remainder(s.start, t)
        reset     == WindowElapsed(remainder)
        cnt       == (IF reset THEN 1 ELSE s.count) + 1
        st        == IF reset THEN t ELSE s.start
    IN  [gen     |-> [started |-> TRUE, start |-> st, count |-> cnt],
         value   |-> IF LimitReached(cnt) THEN LimitedValue(remainder) ELSE 0,
         reset   |-> reset,
         limited |-> LimitReached(cnt)]

\* ------------------------------------------------------------ initWaitFor
\* Mutant of SetTimeoutDue: the delay is dropped, the timer is due at once.
SetTimeoutDueAtOnce(t, ms) == t

\* setTimeout(resolve, ms): the instant, on the Date.now() clock, from which
\* the timer may fire.  A zero or negative delay means as soon as possible;
\* the runtime measures it on its own event-loop clock, so Date.now() need
\* not have advanced when the timer fires.
SetTimeoutDue(t, ms) == t + (IF ms > 0 THEN ms ELSE 0)

\* Mutant of ClearTimeout: the timer is not released.
ClearTimeoutForgotten(ws, id) == ws

\* Mutant of ClearTimeout: the wait is marked cancelled whatever its status.
ClearTimeoutAnyStatus(ws, id) == [ws EXCEPT ![id].status = "cleared"]

\* clearTimeout(id) on the timers: a pending timer never fires; a timer
\* that already fired or was cleared is left as it is.
ClearTimeout(ws, id) ==
    IF ws[id].status = "pending"
    THEN [ws EXCEPT ![id].status = "cleared"]
    ELSE ws

\* clearWaitFor: `if (timeoutId !== null) clearTimeout(timeoutId)`
ClearWaitFor(ws, id) == IF id # 0 THEN ClearTimeout(ws, id) ELSE ws

Pending(i) == waits[i].status = "pending"
NoPending == \A i \in 1..Len(waits) : ~Pending(i)
AllResolved == \A i \in 1..Len(waits) : waits[i].status = "resolved"

\* waitFor(ms) at time `now`, with the tracker's observation r of the call
\* (r.value = ms for a rateLimiter() call).
WaitRecord(ms, r, onceValue, n) ==
    [at      |-> now,
     timeout |-> ms,
     reset   |-> r.reset,
     limited |-> r.limited,
     nth     |-> n,
     start   |-> r.gen.start,
     once    |-> onceValue,
     due     |-> SetTimeoutDue(now, ms),
     status  |-> "pending",
     doneAt  |-> -1]

\* ------------------------------------------------------- roundMiliseconds
\* Math.round(num / den) for den > 0: the nearest integer, a half going up.
MathRound(num, den) == (2 * num + den) \div (2 * den)

\* Math.round(ms / nearestMs) for a divisor of either sign.
RoundedQuotient(ms, nearestMs) ==
    IF nearestMs > 0 THEN MathRound(ms, nearestMs) ELSE MathRound(-ms, -nearestMs)

\* Mutant of RoundMiliseconds: the product is taken inside Math.round,
\* Math.round(ms / nearestMs * nearestMs).
RoundMilisecondsInside(ms, nearestMs) == MathRound(ms, 1)

\* `return Math.round(ms / nearestMs) * nearestMs`
RoundMiliseconds(ms, nearestMs) == RoundedQuotient(ms, nearestMs) * nearestMs

\* No roundMiliseconds computation is under way.
NoRound == [stage |-> 0, ms |-> 0, nearestMs |-> 1, once |-> 0, twice |-> 0]

\* ---------------------------------------------------------------- Init
Init ==
    /\ rpm \in 0..MaxRpm
    /\ minuteMs \in 1..MaxMinuteMs
    /\ now = 0
    /\ gen = NewGenerator
    /\ genOnce = NewGenerator
    /\ nth = 0
    /\ waits = <<>>
    /\ timeoutId = 0
    /\ lastOp = "init"
    /\ round = NoRound

\* ---------------------------------------------------------------- actions
\* The clock advances by one millisecond.
Tick ==
    /\ now < MaxTime
    /\ now' = now + 1
    /\ lastOp' = "tick"
    /\ UNCHANGED <<rpm, minuteMs, gen, genOnce, nth, waits, timeoutId, round>>

\* rateLimiter(): `timeout = timeoutGenerator.next().value; await waitFor(timeout)`
RateLimiter ==
    /\ Len(waits) < MaxCalls
    /\ LET r == TimeUntilNextMinute(gen, now)
           o == TimeUntilNextMinute(genOnce, now)
           n == IF r.reset \/ ~gen.started THEN 1 ELSE nth + 1
       IN  /\ gen' = r.gen
           /\ genOnce' = o.gen
           /\ nth' = n
           /\ waits' = Append(waits, WaitRecord(r.value, r, o.value, n))
           /\ timeoutId' = Len(waits) + 1
    /\ lastOp' = "call"
    /\ UNCHANGED <<rpm, minuteMs, now, round>>

\* Mutant of TimerFire: once a wait was cancelled, no later timer fires.
TimerFireUnlessCancelledBefore(i) ==
    /\ i \in 1..Len(waits)
    /\ Pending(i)
    /\ now >= waits[i].due
    /\ \A j \in 1..Len(waits) : j < i => waits[j].status # "cleared"
    /\ waits' = [waits EXCEPT ![i].status = "resolved", ![i].doneAt = now]
    /\ lastOp' = "fire"
    /\ UNCHANGED <<rpm, minuteMs, now, gen, genOnce, nth, timeoutId, round>>

\* The due timer of wait i fires: resolve() runs and the awaiting caller
\* resumes.
TimerFire(i) ==
    /\ i \in 1..Len(waits)
    /\ Pending(i)
    /\ now >= waits[i].due
    /\ waits' = [waits EXCEPT ![i].status = "resolved", ![i].doneAt = now]
    /\ lastOp' = "fire"
    /\ UNCHANGED <<rpm, minuteMs, now, gen, genOnce, nth, timeoutId, round>>

\* Some due timer fires.
TimerFires == \E i \in 1..MaxCalls : TimerFire(i)

\* Mutant of Clear: clear() also starts the tracker afresh.
ClearAndRestart ==
    /\ waits' = ClearWaitFor(waits, timeoutId)
    /\ gen' = NewGenerator
    /\ lastOp' = "clear"
    /\ UNCHANGED <<rpm, minuteMs, now, genOnce, nth, timeoutId, round>>

\* Mutant of Clear: clear() also drops the recorded handle.
ClearAndForget ==
    /\ waits' = ClearWaitFor(waits, timeoutId)
    /\ timeoutId' = 0
    /\ lastOp' = "clear"
    /\ UNCHANGED <<rpm, minuteMs, now, gen, genOnce, nth, round>>

\* clear(): clearWaitFor()
Clear ==
    /\ waits' = ClearWaitFor(waits, timeoutId)
    /\ lastOp' = "clear"
    /\ UNCHANGED <<rpm, minuteMs, now, gen, genOnce, nth, timeoutId, round>>

\* rateLimiter() by a caller that awaited every earlier call to the end.
RateLimiterAwaited == AllResolved /\ RateLimiter

\* `get rateLimiter() { return createRateLimiter() }`: reading the property
\* runs createRateLimiter, which binds a new generator to the closure it
\* returns; the caller goes on with that reference.
GetRateLimiter ==
    /\ gen' = NewGenerator
    /\ nth' = 0
    /\ lastOp' = "get"
    /\ UNCHANGED <<rpm, minuteMs, now, genOnce, waits, timeoutId, round>>

\* Mutant of WaitFor: a new wait first releases the timer recorded before.
WaitForCancellingPrevious ==
    \E ms \in {-1, 0, MaxWaitMs} :
        /\ Len(waits) < MaxWaits
        /\ LET r == [gen |-> gen, value |-> ms, reset |-> FALSE, limited |-> FALSE]
           IN  waits' = Append(ClearWaitFor(waits, timeoutId), WaitRecord(ms, r, ms, 0))
        /\ timeoutId' = Len(waits) + 1
        /\ lastOp' = "wait"
        /\ UNCHANGED <<rpm, minuteMs, now, gen, genOnce, nth, round>>

\* waitFor(ms) called on an executor of its own (initWaitFor()), with a
\* negative, a zero or a long duration.
WaitMs == {-1, 0, MaxWaitMs}

WaitFor ==
    \E ms \in WaitMs :
        /\ Len(waits) < MaxWaits
        /\ LET r == [gen |-> gen, value |-> ms, reset |-> FALSE, limited |-> FALSE]
           IN  waits' = Append(waits, WaitRecord(ms, r, ms, 0))
        /\ timeoutId' = Len(waits) + 1
        /\ lastOp' = "wait"
        /\ UNCHANGED <<rpm, minuteMs, now, gen, genOnce, nth, round>>

\* The limiter, its rateLimiter read once (`const { rateLimiter } = ...`),
\* called by any number of flows, awaited or not.
Next == Tick \/ RateLimiter \/ TimerFires \/ Clear

Spec == Init /\ [][Next]_vars

\* The limiter used by a single caller that awaits each call before the next.
NextSeq == Tick \/ RateLimiterAwaited \/ TimerFires \/ Clear

SpecSeq == Init /\ [][NextSeq]_vars

\* The limiter whose rateLimiter property may be read again at any time.
NextGet == Tick \/ RateLimiter \/ GetRateLimiter \/ TimerFires \/ Clear

SpecGet == Init /\ [][NextGet]_vars

\* The executor alone: waitFor and clearWaitFor of one initWaitFor().
NextExec == Tick \/ WaitFor \/ TimerFires \/ Clear

\* No limiter is built around this executor: one configuration stands for all.
InitExec == Init /\ rpm = 1 /\ minuteMs = 1

SpecExec == InitExec /\ [][NextExec]_vars

\* The executor alone on a running event loop.
SpecExecLive ==
    /\ InitExec
    /\ [][NextExec]_vars
    /\ WF_vars(Tick)
    /\ \A i \in 1..MaxWaits : WF_vars(TimerFire(i))

\* roundMiliseconds applied to an input, then once more to its own result.
RoundInputs ==
    {[stage |-> 1, ms |-> x, nearestMs |-> m, once |-> 0, twice |-> 0] :
        x \in -MaxRoundMs..MaxRoundMs,
        m \in (-MaxNearestMs..MaxNearestMs) \ {0}}

InitRound ==
    /\ rpm = 1
    /\ minuteMs = 1
    /\ now = 0
    /\ gen = NewGenerator
    /\ genOnce = NewGenerator
    /\ nth = 0
    /\ waits = <<>>
    /\ timeoutId = 0
    /\ lastOp = "init"
    /\ round \in RoundInputs

RoundOnce ==
    /\ round.stage = 1
    /\ round' = [round EXCEPT !.stage = 2,
                              !.once = RoundMiliseconds(round.ms, round.nearestMs)]
    /\ lastOp' = "round"
    /\ UNCHANGED <<rpm, minuteMs, now, gen, genOnce, nth, waits, timeoutId>>

RoundTwice ==
    /\ round.stage = 2
    /\ round' = [round EXCEPT !.stage = 3,
                              !.twice = RoundMiliseconds(round.once, round.nearestMs)]
    /\ lastOp' = "round"
    /\ UNCHANGED <<rpm, minuteMs, now, gen, genOnce, nth, waits, timeoutId>>

NextRound == RoundOnce \/ RoundTwice

SpecRound == InitRound /\ [][NextRound]_vars

\* The limiter on a running event loop: the clock keeps advancing (up to the
\* horizon MaxTime) and every timer that stays due is fired.  Whether a timer
\* fires does not depend on the configuration: limit 1 with the longest
\* window, under which the first call of a window is already delayed and
\* the delays are the longest, stands for all.
InitLive == Init /\ rpm = 1 /\ minuteMs = MaxMinuteMs

SpecLive ==
    /\ InitLive
    /\ [][Next]_vars
    /\ WF_vars(Tick)
    /\ \A i \in 1..MaxCalls : WF_vars(TimerFire(i))

\* ------------------------------------------------------------ the claims
Waits == 1..Len(waits)
Resolved(i) == waits[i].status = "resolved"
\* The tracker answered call i with a positive delay.
Delayed(i) == waits[i].timeout > 0
\* Calls i < j are delayed and no call between them is.
NextDelayed(i, j) ==
    /\ i < j
    /\ Delayed(i)
    /\ Delayed(j)
    /\ \A k \in Waits : (i < k /\ k < j) => ~Delayed(k)

\* C1 (as claimed): with limit L >= 1 and a caller that awaits every call,
\* at most L rateLimiter() calls complete within any interval of length W.
C1_QuotaInAnyInterval ==
    rpm >= 1 =>
        \A t \in 0..MaxTime :
            Cardinality({i \in Waits : /\ Resolved(i)
                                       /\ waits[i].doneAt >= t
                                       /\ waits[i].doneAt < t + minuteMs}) <= rpm

\* C2 (as claimed): with limit L >= 1, each of the first L invocations in a
\* window returns 0 and the (L+1)-th is the first to take the limited branch.
C2_FirstLReturnZero ==
    rpm >= 1 =>
        \A i \in Waits :
            /\ waits[i].nth <= rpm => (waits[i].timeout = 0 /\ ~waits[i].limited)
            /\ waits[i].nth = rpm + 1 => waits[i].limited

\* C3: the (L+1)-th invocation within a window returns the time remaining
\* until the window boundary, windowStartTime + windowDurationMs - now; made
\* at the instant the window began it returns windowDurationMs.
C3_RemainingUntilBoundary ==
    rpm >= 1 =>
        \A i \in Waits :
            waits[i].nth = rpm + 1 =>
                /\ waits[i].timeout = (waits[i].start + minuteMs) - waits[i].at
                /\ waits[i].at = waits[i].start => waits[i].timeout = minuteMs

\* C3 witness: an (L+1)-th invocation made after time passed in its window,
\* and still inside it.
C3_Witness ==
    /\ rpm >= 1
    /\ \E i \in Waits :
        /\ waits[i].nth = rpm + 1
        /\ waits[i].at > waits[i].start
        /\ waits[i].timeout > 0
        /\ waits[i].timeout < minuteMs

\* C4 (as claimed): after a positive delay d was returned and awaited, the very
\* next invocation returns 0 and has reset the window, and the further
\* invocations of that new window, up to the L-th of it, return 0 too.
C4_ResetAfterAwaitedDelay ==
    rpm >= 1 =>
        \A i \in Waits :
            (Delayed(i) /\ Resolved(i) /\ i + 1 <= Len(waits)) =>
                /\ waits[i + 1].timeout = 0
                /\ waits[i + 1].reset
                /\ waits[i + 1].start = waits[i + 1].at
                /\ \A j \in Waits :
                    (j > i + 1 /\ waits[j].start = waits[i + 1].start
                               /\ waits[j].nth <= rpm) => waits[j].timeout = 0

C6_SameDelaysHoweverRead ==
    \A i \in Waits : waits[i].timeout = waits[i].once

\* C7 (as claimed): clear() called while exactly one wait is pending, before
\* its duration has elapsed, leaves that wait cancelled, and a cancelled wait
\* is never settled afterwards.
C7_CancelTheOnlyPendingWait ==
    [][ /\ (Clear /\ Cardinality({i \in Waits : Pending(i)}) = 1)
            => \A i \in Waits :
                   (Pending(i) /\ now < waits[i].due) => waits'[i].status = "cleared"
        /\ \A i \in Waits : waits[i].status = "cleared" => waits'[i] = waits[i]
      ]_vars

\* C7 (amended): clear() called while the wait started last, the one whose
\* handle is recorded, is pending leaves that wait cancelled, and a cancelled
\* wait is never settled afterwards.
C7_CancelTheLatestPendingWait ==
    [][ /\ (Clear /\ timeoutId # 0 /\ Pending(timeoutId))
            => waits'[timeoutId].status = "cleared"
        /\ \A i \in Waits : waits[i].status = "cleared" => waits'[i] = waits[i]
      ]_vars

\* C7 witness: a wait was cancelled by clear() and is still unsettled after
\* the instant it was due.
C7_Witness ==
    /\ timeoutId # 0
    /\ waits[timeoutId].status = "cleared"
    /\ waits[timeoutId].timeout > 0
    /\ now > waits[timeoutId].due

\* C8: clear() with no wait pending changes nothing: no completion is
\* settled, no timer and no handle changes, the tracker is untouched.
C8_ClearWithNoPendingIsNoOp ==
    [][ (Clear /\ NoPending)
            => UNCHANGED <<rpm, minuteMs, now, gen, genOnce, nth, waits, timeoutId>>
      ]_vars

\* C8 witness: clear() was called after the recorded wait fired on its own.
C8_Witness ==
    /\ lastOp = "clear"
    /\ NoPending
    /\ timeoutId # 0
    /\ waits[timeoutId].status = "resolved"
    /\ gen.count > rpm

\* C9: clear() leaves windowStartTime and callCount as they were, so the
\* next rateLimiter() call computes the delay it would have computed.
C9_ClearKeepsTracker ==
    [][ Clear => /\ gen' = gen
                 /\ TimeUntilNextMinute(gen', now').value
                        = TimeUntilNextMinute(gen, now).value
      ]_vars

\* C9 witness: clear() cancelled a delayed call in a window whose quota is
\* used up, inside that window.
C9_Witness ==
    /\ lastOp = "clear"
    /\ gen.started
    /\ gen.count > rpm
    /\ now < gen.start + minuteMs
    /\ \E i \in Waits : waits[i].status = "cleared" /\ Delayed(i)

\* C10: a call whose tracker delay is d > 0 does not resolve before d ms have
\* elapsed since it was made; a call whose delay is zero or negative may
\* resolve at the instant it is made.
C10_ResolvesAfterItsDelay ==
    \A i \in Waits :
        /\ (Delayed(i) /\ Resolved(i)) => waits[i].doneAt >= waits[i].at + waits[i].timeout
        /\ Resolved(i) => waits[i].doneAt >= waits[i].at
        /\ (~Delayed(i) /\ Pending(i)) => now >= waits[i].due
        /\ ~Delayed(i) => waits[i].due = waits[i].at

\* C10 witness: a delayed call resolved exactly d ms after it was made and a
\* call with a negative delay resolved at the instant it was made.
C10_Witness ==
    /\ \E i \in Waits :
        Delayed(i) /\ Resolved(i) /\ waits[i].doneAt = waits[i].at + waits[i].timeout
    /\ \E j \in Waits :
        waits[j].timeout < 0 /\ Resolved(j) /\ waits[j].doneAt = waits[j].at

\* C11: every rateLimiter() call that is not cancelled while it is pending
\* eventually resolves, calls made after an earlier clear() included (stated
\* for the calls due within the clock's horizon).
C11_UncancelledCallsResolve ==
    \A i \in 1..MaxCalls :
        (i \in Waits /\ Pending(i) /\ waits[i].due <= MaxTime)
            ~> (i \in Waits /\ (Resolved(i) \/ waits[i].status = "cleared"))

\* C11 witness: a delayed call made after an earlier call was cancelled has
\* resolved, while the cancelled one has not.
C11_Witness ==
    \E i \in Waits : \E j \in Waits :
        /\ i < j
        /\ waits[i].status = "cleared"
        /\ Delayed(j)
        /\ Resolved(j)

\* C12: roundMiliseconds is idempotent, and its result is an integer multiple
\* of nearestMs, for every integer ms and non-zero integer nearestMs.
C12_RoundIsIdempotent ==
    /\ round.stage >= 2 =>
         \E k \in -(MaxRoundMs + 1)..(MaxRoundMs + 1) : round.once = k * round.nearestMs
    /\ round.stage = 3 => round.twice = round.once

\* C12 witness: a negative value that is no multiple was rounded away from
\* zero, and rounded again.
C12_Witness ==
    /\ round.stage = 3
    /\ round.ms < 0
    /\ round.nearestMs > 1
    /\ round.once < round.ms

\* C13: callCount >= 1 always; a 'next delay' invocation resets the window
\* exactly when now is strictly greater than windowStartTime +
\* windowDurationMs; without a reset it adds 1 to callCount and keeps
\* windowStartTime; with a reset it ends with callCount = 2 and
\* windowStartTime = now.
C13_WindowStateTransitions ==
    [][ /\ gen.count >= 1
        /\ gen'.count >= 1
        /\ (RateLimiter /\ gen.started) =>
             LET passed == now > gen.start + minuteMs
             IN  /\ waits'[Len(waits')].reset <=> passed
                 /\ passed => (gen'.count = 2 /\ gen'.start = now)
                 /\ ~passed => (gen'.count = gen.count + 1 /\ gen'.start = gen.start)
        /\ (RateLimiter /\ ~gen.started) =>
             (~waits'[Len(waits')].reset /\ gen'.count = 2 /\ gen'.start = now)
      ]_vars

\* C13 witness: an invocation made at the boundary instant did not reset and
\* a later one, made past the boundary, did.
C13_Witness ==
    \E i \in Waits : \E j \in Waits :
        /\ i < j
        /\ waits[i].nth > 1
        /\ waits[i].at = waits[i].start + minuteMs
        /\ ~waits[i].reset
        /\ waits[j].reset
        /\ waits[j].start = waits[j].at
        /\ gen.count = 2

\* C14: a negative value is returned only by an invocation that reset the
\* window in that same invocation, and it is the remainder of the window
\* that had elapsed; an invocation that does not reset never returns a
\* negative value.
C14_NegativeOnlyOnReset ==
    \A i \in Waits :
        /\ waits[i].timeout < 0 =>
             /\ waits[i].reset
             /\ i > 1
             /\ waits[i].timeout = (waits[i - 1].start + minuteMs) - waits[i].at
        /\ ~waits[i].reset => waits[i].timeout >= 0

\* C14 witness: a resetting invocation returned a negative value.
C14_Witness ==
    /\ rpm >= 1
    /\ \E i \in Waits : waits[i].reset /\ waits[i].timeout < 0

\* The window start that invocation i found: the one the invocation before
\* it left, or the instant of the first invocation itself.
StartFound(i) == IF i = 1 THEN waits[1].at ELSE waits[i - 1].start

\* C15 (as claimed): with limit 0 every invocation returns windowDurationMs,
\* whenever it is made, and never 0.
C15_ZeroLimitAlwaysFullWindow ==
    rpm = 0 => \A i \in Waits : waits[i].timeout = minuteMs /\ waits[i].timeout # 0

\* C15 (amended): with limit 0 every invocation takes the limited branch and
\* returns the remainder of the window it found, windowStartTime +
\* windowDurationMs - now: windowDurationMs only at the instant the window
\* started, less afterwards, 0 at the boundary instant and a negative value
\* when it resets the window.
C15_ZeroLimitReturnsRemainder ==
    rpm = 0 =>
        \A i \in Waits :
            /\ waits[i].limited
            /\ waits[i].timeout = (StartFound(i) + minuteMs) - waits[i].at
            /\ waits[i].timeout <= minuteMs
            /\ waits[i].timeout = minuteMs <=> waits[i].at = StartFound(i)
            /\ waits[i].timeout = 0 <=> waits[i].at = StartFound(i) + minuteMs
            /\ waits[i].timeout < 0 <=> waits[i].reset

\* C15 witness: with limit 0, one invocation returned part of the window and
\* another returned 0 at the boundary instant.
C15_Witness ==
    /\ rpm = 0
    /\ \E i \in Waits : waits[i].timeout > 0 /\ waits[i].timeout < minuteMs
    /\ \E j \in Waits : waits[j].timeout = 0

\* C16 (as claimed): a handle is recorded only while the wait it belongs to
\* is outstanding: none is recorded once that wait fired or was cancelled.
C16_HandleOnlyWhilePending ==
    timeoutId # 0 => Pending(timeoutId)

\* C16 (amended): the executor records the handle of a wait when it begins
\* and keeps it after the wait fired or was cancelled: the one recorded
\* handle is always that of the wait started last, and null only before the
\* first wait.
C16_HandleOfLatestWait ==
    /\ timeoutId = Len(waits)
    /\ timeoutId = 0 <=> waits = <<>>

\* C16 witness: a handle is recorded although one wait was cancelled, the
\* latest fired and nothing is outstanding.
C16_Witness ==
    /\ timeoutId # 0
    /\ NoPending
    /\ Resolved(timeoutId)
    /\ \E i \in Waits : waits[i].status = "cleared"

\* C17: a wait started while another is pending only overwrites the recorded
\* handle and leaves the earlier wait as it is; a later cancel() acts on the
\* wait started last only, and an earlier wait still resolves once it is due
\* (stated for the waits due within the clock's horizon).
C17_OverlappingWaits ==
    /\ [][ /\ WaitFor =>
                /\ timeoutId' = Len(waits) + 1
                /\ \A i \in Waits : waits'[i] = waits[i]
           /\ Clear =>
                \A i \in Waits : i # timeoutId => waits'[i] = waits[i]
           /\ (Clear /\ timeoutId # 0 /\ Pending(timeoutId))
                => ~Pending(timeoutId)'
         ]_vars
    /\ \A i \in 1..MaxWaits :
         (i \in Waits /\ Pending(i) /\ i # timeoutId /\ waits[i].due <= MaxTime)
            ~> (i \in Waits /\ Resolved(i))

\* C17 witness: wait(b) was started while wait(a) was running, cancel()
\* stopped wait(b) and wait(a) resolved when a ms had elapsed.
C17_Witness ==
    \E a \in Waits : \E b \in Waits :
        /\ a < b
        /\ waits[a].timeout > 0
        /\ waits[b].at < waits[a].due
        /\ waits[b].status = "cleared"
        /\ Resolved(a)
        /\ waits[a].doneAt = waits[a].at + waits[a].timeout

\* C18: with a clock that never goes back, every value 'next delay' returns
\* is at most windowDurationMs and windowStartTime <= now always, so no
\* rateLimiter() call is scheduled to wait longer than one window.
C18_DelayAtMostOneWindow ==
    /\ gen.started => gen.start <= now
    /\ \A i \in Waits :
        /\ waits[i].timeout <= minuteMs
        /\ waits[i].start <= waits[i].at
        /\ waits[i].due <= waits[i].at + minuteMs

\* C18 witness: a call in a window that began after time 0 was told to wait
\* the whole window.
C18_Witness ==
    /\ rpm >= 1
    /\ \E i \in Waits :
        /\ waits[i].timeout = minuteMs
        /\ waits[i].start > 0
        /\ waits[i].due = waits[i].at + minuteMs

\* C19 (as claimed): with limit L >= 1, an invocation that returns a value
\* <= 0 either reset the window or left callCount <= limit; at the instant
\* now = windowStartTime + windowDurationMs with the quota used up no call
\* gets through without a reset.
C19_NoFreePassWithoutReset ==
    rpm >= 1 =>
        \A i \in Waits :
            waits[i].timeout <= 0 => (waits[i].reset \/ ~waits[i].limited)

\* C20: the first window starts at the first invocation, not when the
\* tracker is created: the first invocation never resets, starts the window
\* at its own instant and, for limit >= 2, returns 0, however late it comes.
C20_FirstWindowStartsAtFirstCall ==
    waits # <<>> =>
        /\ waits[1].start = waits[1].at
        /\ ~waits[1].reset
        /\ waits[1].nth = 1
        /\ rpm >= 2 => waits[1].timeout = 0

\* C20 witness: the first invocation came more than a window after the
\* tracker was created and returned 0 without a reset.
C20_Witness ==
    /\ rpm >= 2
    /\ waits # <<>>
    /\ waits[1].at > minuteMs
    /\ waits[1].timeout = 0
    /\ ~waits[1].reset

====
